---- MODULE Spec2Model ----
(***************************************************************************)
(* Model of src/server.js: the OpenPhone order intake pipeline.            *)
(*                                                                         *)
(* One Node.js process runs OrderAutomationService.processMessages from    *)
(* two cron schedules and from the /process-now endpoint.  JavaScript runs *)
(* a handler synchronously up to its next `await`; at an await the event   *)
(* loop may resume any other pending continuation.  Every action below is  *)
(* one such synchronous segment or one statement of it; while a run is in  *)
(* a synchronous segment (Busy) no other continuation is resumed.          *)
(*                                                                         *)
(* External systems (OpenPhone, OpenAI, Google Sheets, Slack) answer       *)
(* nondeterministically.  A missing credential (lines 48, 104, 141, 184)   *)
(* makes the adapter return its failure value; that behaviour is one of    *)
(* the outcomes drawn for the adapter.                                     *)
(***************************************************************************)
EXTENDS Integers, Sequences, FiniteSets, TLC

\* ---------------------------------------------------------------- bounds
MaxRuns == 2      \* processMessages invocations that can be in flight
MaxMsgs == 2      \* message ids that can exist at the source
MaxTime == 2      \* wall clock ticks

PageLimit == 2    \* page size of one fetch; stands for `limit: 50`, line 60

Runs  == 1..MaxRuns
Ids   == 1..MaxMsgs
Times == 0..MaxTime

Directions == {"inbound", "outbound"}

\* What the chat-completions call can produce for one message:
\*   order         content is the full order object of the prompt
\*   notOrder      content is {"isOrder": false}
\*   error         axios.post rejects (transport error, timeout, 4xx/5xx)
\*   nonJson       content is text JSON.parse rejects
\*   jsonNull      content is the JSON text  null
\*   jsonScalar    content is JSON without an isOrder member (42, "x", [])
\*   orderNoFields content is {"isOrder": true} without products/quantities
ClassifierOutcomes ==
  {"order", "notOrder", "error", "nonJson", "jsonNull", "jsonScalar",
   "orderNoFields"}

\* What a sink's external call can do
SinkOutcomes == {"ok", "fail"}

Message == [id : Ids, direction : Directions, createdAt : Times]

VARIABLES
  now,                  \* wall clock, read by `new Date()`
  lastProcessedTime,    \* module variable, line 19 (the watermark)
  processedMessageIds,  \* this.processedMessageIds, line 23
  source,               \* messages that exist at OpenPhone
  appendCalls,          \* id -> number of logOrderToSheet calls, all runs
  notifyCalls,          \* id -> number of sendSlackNotification calls
  terminated,           \* the process died of an unhandled rejection
  pc,                   \* run -> position in processMessages
  awaited,              \* run -> the caller awaits the promise (/process-now)
  createdAfter,         \* run -> createdAfter parameter of its fetch
  fetchFailed,          \* run -> axios.get rejected (caught at line 66)
  batch,                \* run -> `messages`, line 285
  idx,                  \* run -> position of the for-of loop in batch
  response,             \* run -> what the chat-completions call produced
  analysis,             \* run -> `analysis`, line 303
  sheetSuccess,         \* run -> `sheetSuccess`, line 309
  slackSuccess,         \* run -> `slackSuccess`, line 312
  outcome,              \* run -> how the processMessages promise settled
  aborted,              \* run -> the catch of line 331 ran
  sheetCalls,           \* run -> logOrderToSheet calls of this iteration
  slackCalls,           \* run -> sendSlackNotification calls of this iteration
  headersWritten,       \* the Orders sheet has its header row (line 357)
  calls,                \* history: processMessages calls entered since the
                        \* last message arrived, counted up to 2
  classified            \* history: ids handed to analyzeMessageForOrder

globals == <<now, lastProcessedTime, processedMessageIds, source,
             appendCalls, notifyCalls, terminated>>
locals  == <<pc, awaited, createdAfter, fetchFailed, batch, idx, response,
             analysis, sheetSuccess, slackSuccess, outcome, aborted,
             sheetCalls, slackCalls>>
extras  == <<headersWritten, calls, classified>>
vars    == <<globals, locals, extras>>

Zero == [i \in Ids |-> 0]

\* ------------------------------------------------------------- helpers

\* A run is inside a synchronous segment: nothing else gets the event loop.
Busy == \E r \in Runs : pc[r] \in {"loop", "judged"}

\* processMessages has been called and its promise has not settled.
InFlight(r) == pc[r] \notin {"idle", "settled"}

\* The messages the source holds that were created after t (server side
\* filter of `createdAfter`, exclusive).
CreatedAfter(t) == {m \in source : m.createdAt > t}

\* All orderings of a finite set, as sequences without repetition.
Orderings(S) ==
  {s \in [1..Cardinality(S) -> S] : \A i, j \in 1..Cardinality(S) :
                                       i # j => s[i] # s[j]}

\* response.data.data of a successful fetch: at most PageLimit of the
\* matching messages, in the order the source chooses.
FetchResults(t) ==
  LET all == CreatedAfter(t)
      n   == IF Cardinality(all) <= PageLimit THEN Cardinality(all)
                                              ELSE PageLimit
  IN  UNION {Orderings(S) : S \in {T \in SUBSET all : Cardinality(T) = n}}

\* Variant: the dedup test of line 290 is missing.
AlreadyProcessed_missing(id) == FALSE

\* this.processedMessageIds.has(message.id), line 290
AlreadyProcessed(id) == id \in processedMessageIds

\* Variant: the direction filter of line 295 is missing.
NotInbound_missing(m) == FALSE

\* Variant: the direction filter of line 295 catches every message.
NotInbound_always(m) == TRUE

\* message.direction !== 'inbound', line 295
NotInbound(m) == m.direction # "inbound"

\* analyzeMessageForOrder, lines 103-135: the value it returns.
\* Everything that throws inside the try is caught and becomes
\* {isOrder:false}; whatever JSON.parse accepts is returned as it is.
analyzeMessageForOrder(resp) ==
  CASE resp \in {"error", "nonJson"} -> "notOrder"
    [] resp = "order"                -> "order"
    [] resp = "notOrder"             -> "notOrder"
    [] resp = "jsonNull"             -> "null"
    [] resp = "jsonScalar"           -> "scalar"
    [] resp = "orderNoFields"        -> "partialOrder"

\* Variant: the test of line 305 taken as "an analysis came back".
IsOrder_anyObject(a) ==
  CASE a = "null" -> "throw"
    [] OTHER      -> "truthy"

\* `analysis.isOrder` of line 305: property access on null throws a
\* TypeError, a missing member is undefined (falsy).
IsOrder(a) ==
  CASE a = "null"                       -> "throw"
    [] a \in {"order", "partialOrder"}  -> "truthy"
    [] OTHER                            -> "falsy"

\* Variant: logOrderToSheet without its try/catch: a failure propagates.
logOrderToSheet_uncaught(a, ext) ==
  IF a = "partialOrder" \/ ext = "fail" THEN "throw" ELSE "true"

\* logOrderToSheet, lines 139-179: orderData.products.join throws on an
\* analysis without products; every throw is caught and becomes false.
logOrderToSheet(a, ext) ==
  IF a = "partialOrder" \/ ext = "fail" THEN "false" ELSE "true"

\* sendSlackNotification, lines 182-278: same shape as logOrderToSheet.
sendSlackNotification(a, ext) ==
  IF a = "partialOrder" \/ ext = "fail" THEN "false" ELSE "true"

\* ids of the messages of a list
IdsOf(b) == {b[i].id : i \in 1..Len(b)}

\* Variant: the watermark is set to the timestamp of the last message of the
\* batch instead of the clock.
NewWatermark_lastMessage(r) ==
  IF Len(batch[r]) = 0 THEN lastProcessedTime
                       ELSE batch[r][Len(batch[r])].createdAt

\* What line 328 stores in lastProcessedTime.
NewWatermark(r) == now

\* Variant: the catch of line 331 rethrows.
OuterCatch_rethrow == "rejected"

\* The catch of lines 331-333 logs and falls off the end of the function:
\* the promise resolves.
OuterCatch == "resolved"

\* What the promise of processMessages resolves with: the function has no
\* return statement (lines 281-334), and /process-now answers
\* {success, message} without reading it (lines 421-422).
ReturnValue == [kind |-> "undefined"]

\* --------------------------------------------------------------- Init

Init ==
  /\ now = 0
  /\ lastProcessedTime = 0
  /\ processedMessageIds = {}
  /\ source = {}
  /\ appendCalls = Zero
  /\ notifyCalls = Zero
  /\ terminated = FALSE
  /\ pc = [r \in Runs |-> "idle"]
  /\ awaited = [r \in Runs |-> FALSE]
  /\ createdAfter = [r \in Runs |-> 0]
  /\ fetchFailed = [r \in Runs |-> FALSE]
  /\ batch = [r \in Runs |-> <<>>]
  /\ idx = [r \in Runs |-> 1]
  /\ response = [r \in Runs |-> "none"]
  /\ analysis = [r \in Runs |-> "none"]
  /\ sheetSuccess = [r \in Runs |-> "none"]
  /\ slackSuccess = [r \in Runs |-> "none"]
  /\ outcome = [r \in Runs |-> "none"]
  /\ aborted = [r \in Runs |-> FALSE]
  /\ sheetCalls = [r \in Runs |-> 0]
  /\ slackCalls = [r \in Runs |-> 0]
  /\ headersWritten = FALSE
  /\ classified = {}
  /\ calls = 0

\* ------------------------------------------------------- environment

\* The wall clock advances.
Tick ==
  /\ ~Busy
  /\ now < MaxTime
  /\ now' = now + 1
  /\ UNCHANGED <<lastProcessedTime, processedMessageIds, source,
                 appendCalls, notifyCalls, terminated, locals>>
  /\ UNCHANGED extras

\* A message comes into existence at the source.  Ids are opaque, so they
\* are handed out in the order of creation.
NewMessage(dir) ==
  /\ ~Busy
  /\ Cardinality(source) < MaxMsgs
  /\ source' = source \cup {[id |-> Cardinality(source) + 1,
                             direction |-> dir, createdAt |-> now]}
  /\ UNCHANGED <<now, lastProcessedTime, processedMessageIds,
                 appendCalls, notifyCalls, terminated, locals>>
  /\ calls' = 0
  /\ UNCHANGED <<headersWritten, classified>>

\* ------------------------------------------------------ processMessages

\* The iteration's block-scoped values (lines 303-312) are gone.
ClearIteration(r) ==
  /\ response' = [response EXCEPT ![r] = "none"]
  /\ analysis' = [analysis EXCEPT ![r] = "none"]
  /\ sheetSuccess' = [sheetSuccess EXCEPT ![r] = "none"]
  /\ slackSuccess' = [slackSuccess EXCEPT ![r] = "none"]
  /\ sheetCalls' = [sheetCalls EXCEPT ![r] = 0]
  /\ slackCalls' = [slackCalls EXCEPT ![r] = 0]

iteration == <<response, analysis, sheetSuccess, slackSuccess, sheetCalls,
               slackCalls>>

\* processMessages is entered (lines 281-285) and runs up to the await of
\* axios.get inside fetchOpenPhoneMessages; the request carries the
\* watermark read at this moment (line 61).
Enter(r, isAwaited) ==
  /\ ~Busy
  /\ ~terminated
  /\ pc[r] = "idle"
  /\ pc' = [pc EXCEPT ![r] = "fetchWait"]
  /\ awaited' = [awaited EXCEPT ![r] = isAwaited]
  /\ createdAfter' = [createdAfter EXCEPT ![r] = lastProcessedTime]
  /\ UNCHANGED <<globals, fetchFailed, batch, idx, iteration, outcome,
                 aborted>>

\* A call of processMessages by one of its three callers.
Start(r, isAwaited) == Enter(r, isAwaited) /\ UNCHANGED extras

\* cron.schedule('0 5,6,8,9,11,12,14,15 * * *'), lines 380-384: the
\* callback drops the promise.
CronHourly(r) == Start(r, FALSE)

\* cron.schedule('30 6,8,10,12,14 * * *'), lines 387-391: the same callback.
CronHalfHour(r) == Start(r, FALSE)

\* GET/POST /process-now, lines 419-435: the handler awaits the promise.
ProcessNow(r) == Start(r, TRUE)

\* fetchOpenPhoneMessages returns (lines 65, 68): the list of the response,
\* or [] when the request failed or no key is configured.
FetchReturn(r) ==
  /\ ~Busy
  /\ pc[r] = "fetchWait"
  /\ \/ /\ fetchFailed' = [fetchFailed EXCEPT ![r] = TRUE]
        /\ batch' = [batch EXCEPT ![r] = <<>>]
     \/ /\ fetchFailed' = [fetchFailed EXCEPT ![r] = FALSE]
        /\ \E b \in FetchResults(createdAfter[r]) :
             batch' = [batch EXCEPT ![r] = b]
  /\ idx' = [idx EXCEPT ![r] = 1]
  /\ createdAfter' = [createdAfter EXCEPT ![r] = 0]
  /\ pc' = [pc EXCEPT ![r] = "loop"]
  /\ UNCHANGED <<globals, awaited, iteration, outcome, aborted>>
  /\ UNCHANGED extras

\* One pass through the head of the for-of loop, lines 288-303.
Inspect(r) ==
  /\ pc[r] = "loop"
  /\ idx[r] <= Len(batch[r])
  /\ LET m == batch[r][idx[r]] IN
       IF AlreadyProcessed(m.id)
       THEN /\ idx' = [idx EXCEPT ![r] = @ + 1]
            /\ UNCHANGED <<processedMessageIds, pc>>
       ELSE IF NotInbound(m)
       THEN /\ processedMessageIds' = processedMessageIds \cup {m.id}
            /\ idx' = [idx EXCEPT ![r] = @ + 1]
            /\ UNCHANGED pc
       ELSE /\ pc' = [pc EXCEPT ![r] = "analyzeWait"]
            /\ UNCHANGED <<processedMessageIds, idx>>
  /\ ClearIteration(r)
  /\ UNCHANGED <<now, lastProcessedTime, source, appendCalls, notifyCalls,
                 terminated, awaited, createdAfter, fetchFailed, batch,
                 outcome, aborted>>

Examine(r) == Inspect(r) /\ UNCHANGED extras

\* The promise of processMessages settles: the locals of the call are gone.
Settle(r, how, viaCatch) ==
  /\ pc' = [pc EXCEPT ![r] = "settled"]
  /\ outcome' = [outcome EXCEPT ![r] = how]
  /\ aborted' = [aborted EXCEPT ![r] = viaCatch]
  /\ batch' = [batch EXCEPT ![r] = <<>>]
  /\ idx' = [idx EXCEPT ![r] = 1]
  /\ fetchFailed' = [fetchFailed EXCEPT ![r] = FALSE]
  /\ ClearIteration(r)

\* The loop is exhausted: lines 327-329, then the function returns.
AdvanceWatermark(r) ==
  /\ pc[r] = "loop"
  /\ idx[r] > Len(batch[r])
  /\ lastProcessedTime' = NewWatermark(r)
  /\ Settle(r, "resolved", FALSE)
  /\ UNCHANGED <<now, processedMessageIds, source, appendCalls, notifyCalls,
                 terminated, awaited, createdAfter>>
  /\ UNCHANGED extras

\* An exception reaches the catch of line 331: the run ends there.
Caught(r) == Settle(r, OuterCatch, TRUE)

\* analyzeMessageForOrder returns into line 303.
AnalyzeReturn(r) ==
  /\ ~Busy
  /\ pc[r] = "analyzeWait"
  /\ \E resp \in ClassifierOutcomes :
       /\ response' = [response EXCEPT ![r] = resp]
       /\ analysis' = [analysis EXCEPT ![r] = analyzeMessageForOrder(resp)]
  /\ pc' = [pc EXCEPT ![r] = "judged"]
  /\ UNCHANGED <<globals, awaited, createdAfter, fetchFailed, batch, idx,
                 sheetSuccess, slackSuccess, outcome, aborted, sheetCalls,
                 slackCalls>>
  /\ UNCHANGED extras

\* A loop that moved on by two would leave a message of the batch out.
MarkProcessed_skip(r) ==
  /\ processedMessageIds' = processedMessageIds \cup {batch[r][idx[r]].id}
  /\ idx' = [idx EXCEPT ![r] = @ + 2]
  /\ pc' = [pc EXCEPT ![r] = "loop"]

\* Mark as processed and go to the next message, line 324.
MarkProcessed(r) ==
  /\ processedMessageIds' = processedMessageIds \cup {batch[r][idx[r]].id}
  /\ idx' = [idx EXCEPT ![r] = @ + 1]
  /\ pc' = [pc EXCEPT ![r] = "loop"]

\* `if (analysis.isOrder)`, lines 305-324.
Judge(r) ==
  /\ pc[r] = "judged"
  /\ LET m == batch[r][idx[r]]
         v == IsOrder(analysis[r])
     IN  CASE v = "throw" ->
                /\ Caught(r)
                /\ UNCHANGED <<processedMessageIds, appendCalls>>
           [] v = "truthy" ->
                /\ appendCalls' = [appendCalls EXCEPT ![m.id] = @ + 1]
                /\ sheetCalls' = [sheetCalls EXCEPT ![r] = @ + 1]
                /\ pc' = [pc EXCEPT ![r] = "sheetWait"]
                /\ UNCHANGED <<processedMessageIds, idx, outcome, aborted,
                               fetchFailed, batch, response, analysis,
                               sheetSuccess, slackSuccess, slackCalls>>
           [] v = "falsy" ->
                /\ MarkProcessed(r)
                /\ UNCHANGED <<appendCalls, outcome, aborted, fetchFailed,
                               batch, iteration>>
  /\ UNCHANGED <<now, lastProcessedTime, source, notifyCalls, terminated,
                 awaited, createdAfter>>
  /\ UNCHANGED extras

\* logOrderToSheet returns into line 309; line 312 calls
\* sendSlackNotification.
SheetReturn(r) ==
  /\ ~Busy
  /\ pc[r] = "sheetWait"
  /\ \E ext \in SinkOutcomes :
       LET res == logOrderToSheet(analysis[r], ext)
           m   == batch[r][idx[r]]
       IN  IF res = "throw"
           THEN /\ Caught(r)
                /\ UNCHANGED notifyCalls
           ELSE /\ sheetSuccess' = [sheetSuccess EXCEPT ![r] = res]
                /\ notifyCalls' = [notifyCalls EXCEPT ![m.id] = @ + 1]
                /\ slackCalls' = [slackCalls EXCEPT ![r] = @ + 1]
                /\ pc' = [pc EXCEPT ![r] = "slackWait"]
                /\ UNCHANGED <<outcome, aborted, fetchFailed, batch, idx,
                               response, analysis, slackSuccess, sheetCalls>>
  /\ UNCHANGED <<now, lastProcessedTime, processedMessageIds, source,
                 appendCalls, terminated, awaited, createdAfter>>
  /\ UNCHANGED extras

\* sendSlackNotification returns into line 312; lines 314-324 follow.
SlackReturn(r) ==
  /\ ~Busy
  /\ pc[r] = "slackWait"
  /\ \E ext \in SinkOutcomes :
       LET res == sendSlackNotification(analysis[r], ext)
       IN  IF res = "throw"
           THEN /\ Caught(r)
                /\ UNCHANGED processedMessageIds
           ELSE /\ slackSuccess' = [slackSuccess EXCEPT ![r] = res]
                /\ MarkProcessed(r)
                /\ UNCHANGED <<outcome, aborted, fetchFailed, batch,
                               response, analysis, sheetSuccess, sheetCalls,
                               slackCalls>>
  /\ UNCHANGED <<now, lastProcessedTime, source, appendCalls, notifyCalls,
                 terminated, awaited, createdAfter>>
  /\ UNCHANGED extras

\* The caller of processMessages continues.  The cron callbacks (lines 381,
\* 388) drop the promise, so a rejection would be an unhandled rejection,
\* which ends a Node.js process; /process-now (lines 420-425) answers 200,
\* or 500 from its catch.
Finish(r) ==
  /\ ~Busy
  /\ pc[r] = "settled"
  /\ terminated' = (terminated \/ (outcome[r] = "rejected" /\ ~awaited[r]))
  /\ pc' = [pc EXCEPT ![r] = "idle"]
  /\ awaited' = [awaited EXCEPT ![r] = FALSE]
  /\ outcome' = [outcome EXCEPT ![r] = "none"]
  /\ aborted' = [aborted EXCEPT ![r] = FALSE]
  /\ UNCHANGED <<now, lastProcessedTime, processedMessageIds, source,
                 appendCalls, notifyCalls, createdAfter, fetchFailed, batch,
                 idx, iteration>>
  /\ UNCHANGED extras

Next ==
  \/ Tick
  \/ \E dir \in Directions : NewMessage(dir)
  \/ \E r \in Runs : CronHourly(r)
  \/ \E r \in Runs : CronHalfHour(r)
  \/ \E r \in Runs : ProcessNow(r)
  \/ \E r \in Runs : FetchReturn(r)
  \/ \E r \in Runs : Examine(r)
  \/ \E r \in Runs : AdvanceWatermark(r)
  \/ \E r \in Runs : AnalyzeReturn(r)
  \/ \E r \in Runs : Judge(r)
  \/ \E r \in Runs : SheetReturn(r)
  \/ \E r \in Runs : SlackReturn(r)
  \/ \E r \in Runs : Finish(r)

Spec == Init /\ [][Next]_vars

\* ---------------------------------------------- calls one after another

\* Every earlier call of processMessages has returned to its caller.
NoCall == \A q \in Runs : pc[q] = "idle"

\* processMessages is called when no other call is under way; the history
\* variable counts the calls entered since the last message arrived.
SeqStart(r, isAwaited) ==
  /\ NoCall
  /\ Enter(r, isAwaited)
  /\ calls' = IF calls < 2 THEN calls + 1 ELSE calls
  /\ UNCHANGED <<headersWritten, classified>>

SeqCronHourly(r) == SeqStart(r, FALSE)

SeqCronHalfHour(r) == SeqStart(r, FALSE)

SeqProcessNow(r) == SeqStart(r, TRUE)

NextSeq ==
  \/ Tick
  \/ \E dir \in Directions : NewMessage(dir)
  \/ \E r \in Runs : SeqCronHourly(r)
  \/ \E r \in Runs : SeqCronHalfHour(r)
  \/ \E r \in Runs : SeqProcessNow(r)
  \/ \E r \in Runs : FetchReturn(r)
  \/ \E r \in Runs : Examine(r)
  \/ \E r \in Runs : AdvanceWatermark(r)
  \/ \E r \in Runs : AnalyzeReturn(r)
  \/ \E r \in Runs : Judge(r)
  \/ \E r \in Runs : SheetReturn(r)
  \/ \E r \in Runs : SlackReturn(r)
  \/ \E r \in Runs : Finish(r)

\* The runs of the process when its callers never overlap.
SpecSeq == Init /\ [][NextSeq]_vars

\* ------------------------------------------ a call that never answers

\* The awaits of run r that wait for an external system.
AwaitsExternal(r) ==
  pc[r] \in {"fetchWait", "analyzeWait", "sheetWait", "slackWait"}

\* The external system never answers the request run r is waiting for.
\* axios.get (line 54), axios.post (lines 109, 266) and the sheets client
\* (line 164) are called without a timeout option, so the promise never
\* settles and the continuation of run r is never scheduled.
CallHangs(r) ==
  /\ ~Busy
  /\ AwaitsExternal(r)
  /\ pc' = [pc EXCEPT ![r] = "hung"]
  /\ UNCHANGED <<globals, awaited, createdAfter, fetchFailed, batch, idx,
                 iteration, outcome, aborted, extras>>

\* Some continuation of run r can be scheduled.
RunStep(r) ==
  \/ FetchReturn(r)
  \/ Examine(r)
  \/ AdvanceWatermark(r)
  \/ AnalyzeReturn(r)
  \/ Judge(r)
  \/ SheetReturn(r)
  \/ SlackReturn(r)
  \/ Finish(r)

NextHang ==
  \/ Next
  \/ \E r \in Runs : CallHangs(r)

\* The runs of the process when external calls may stay unanswered.
SpecHang == Init /\ [][NextHang]_vars

\* ------------------------------------------- a source that never fails

\* fetchOpenPhoneMessages when axios.get always resolves (line 65).
FetchOk(r) == FetchReturn(r) /\ fetchFailed'[r] = FALSE

\* Examine, with the history of the messages that reach line 303.
ExamineTracked(r) ==
  /\ Inspect(r)
  /\ classified' = IF pc'[r] = "analyzeWait"
                   THEN classified \cup {batch[r][idx[r]].id}
                   ELSE classified
  /\ UNCHANGED <<headersWritten, calls>>

NextReliable ==
  \/ Tick
  \/ \E dir \in Directions : NewMessage(dir)
  \/ \E r \in Runs : CronHourly(r)
  \/ \E r \in Runs : CronHalfHour(r)
  \/ \E r \in Runs : ProcessNow(r)
  \/ \E r \in Runs : FetchOk(r)
  \/ \E r \in Runs : ExamineTracked(r)
  \/ \E r \in Runs : AdvanceWatermark(r)
  \/ \E r \in Runs : AnalyzeReturn(r)
  \/ \E r \in Runs : Judge(r)
  \/ \E r \in Runs : SheetReturn(r)
  \/ \E r \in Runs : SlackReturn(r)
  \/ \E r \in Runs : Finish(r)

\* The runs of the process against a source whose fetch never fails.
SpecReliable == Init /\ [][NextReliable]_vars

\* Message m can still reach a run: a fetch issued from now on would return
\* it (line 61), a fetch under way will return it, or it is in the part of
\* a batch that a run has yet to go through.
Obtainable(m) ==
  \/ m.createdAt > lastProcessedTime
  \/ \E r \in Runs : pc[r] = "fetchWait" /\ m.createdAt > createdAfter[r]
  \/ \E r \in Runs :
       /\ pc[r] \in {"loop", "analyzeWait", "judged", "sheetWait", "slackWait"}
       /\ \E i \in idx[r]..Len(batch[r]) : batch[r][i].id = m.id

\* ------------------------------------------------------- /setup-sheets

\* Variant: a handler that builds a fresh service object for the setup.
SetupSheets_newService ==
  /\ ~Busy
  /\ ~terminated
  /\ \E ext \in SinkOutcomes : headersWritten' = (headersWritten \/ ext = "ok")
  /\ processedMessageIds' = {}
  /\ UNCHANGED <<now, lastProcessedTime, source, appendCalls, notifyCalls,
                 terminated, locals, calls, classified>>

\* GET/POST /setup-sheets, lines 401-417, calling setupGoogleSheetHeaders,
\* lines 337-372: the header row is written or the update fails, and the
\* handler answers 200 or 500.  Across its one await (line 357) the handler
\* holds nothing of the service's state, so it is one step at the answer.
SetupSheets ==
  /\ ~Busy
  /\ ~terminated
  /\ \E ext \in SinkOutcomes : headersWritten' = (headersWritten \/ ext = "ok")
  /\ UNCHANGED <<globals, locals, calls, classified>>

NextSetup ==
  \/ Next
  \/ SetupSheets

\* The runs of the process together with the setup requests.
SpecSetup == Init /\ [][NextSetup]_vars

TypeOK ==
  /\ now \in Times
  /\ lastProcessedTime \in Times
  /\ processedMessageIds \subseteq Ids
  /\ source \subseteq Message
  /\ terminated \in BOOLEAN
  /\ \A r \in Runs :
       pc[r] \in {"idle", "fetchWait", "loop", "analyzeWait", "judged",
                  "sheetWait", "slackWait", "settled", "hung"}
  /\ headersWritten \in BOOLEAN
  /\ classified \subseteq Ids
  /\ calls \in 0..2

\* ------------------------------------------------------------- claims

\* The run of r ends in this step.
Ends(r) == pc[r] # "settled" /\ pc'[r] = "settled"

\* C1: a run whose fetch call failed ends without changing the watermark
\* or processedMessageIds.
C1_FetchFailureLeavesState ==
  [][\A r \in Runs :
       (fetchFailed[r] /\ Ends(r)) =>
         /\ lastProcessedTime' = lastProcessedTime
         /\ processedMessageIds' = processedMessageIds]_vars

\* C2: over all runs, logOrderToSheet and sendSlackNotification are each
\* called at most once per message id.
C2_AtMostOncePerMessage ==
  \A id \in Ids : appendCalls[id] <= 1 /\ notifyCalls[id] <= 1

\* C3: at most one run of processMessages is in flight at any time.
C3_SingleRunInFlight ==
  Cardinality({r \in Runs : InFlight(r)}) <= 1

\* C4: when the loop examines a message whose id is in processedMessageIds
\* it goes to the next message: no classifier call, no sink call, and no
\* change of processedMessageIds or of the watermark.
C4_ProcessedIdSkipped ==
  [][\A r \in Runs :
       (/\ pc[r] = "loop"
        /\ idx[r] <= Len(batch[r])
        /\ batch[r][idx[r]].id \in processedMessageIds) =>
         /\ pc'[r] = "loop"
         /\ idx'[r] = idx[r] + 1
         /\ sheetCalls'[r] = 0 /\ slackCalls'[r] = 0
         /\ UNCHANGED <<processedMessageIds, lastProcessedTime, appendCalls,
                        notifyCalls>>]_vars

\* C4 witness: a run has just stepped over an inbound message that the
\* source returned although its id was already in processedMessageIds.
C4_Witness ==
  \E r \in Runs :
    /\ pc[r] = "loop"
    /\ idx[r] > 1
    /\ batch[r][idx[r] - 1].direction = "inbound"
    /\ batch[r][idx[r] - 1].id \in processedMessageIds
    /\ response[r] = "none"

\* C5: when a run whose fetch returned a batch ends, every id of the batch
\* is in processedMessageIds.
C5_BatchAllProcessed ==
  [][\A r \in Runs :
       (~fetchFailed[r] /\ Ends(r)) =>
         IdsOf(batch[r]) \subseteq processedMessageIds']_vars

\* Classifier outcomes that are not the contracted order / not-order object.
NonContracted == {"error", "nonJson", "jsonNull", "jsonScalar", "orderNoFields"}

\* C6: after a classifier outcome that is not the contracted shape the
\* message is handled as not-an-order: no sink is called for it and the
\* loop goes on with the next message.
C6_MalformedIsNotOrder ==
  [][\A r \in Runs :
       (pc[r] = "judged" /\ response[r] \in NonContracted) =>
         /\ pc'[r] = "loop"
         /\ idx'[r] = idx[r] + 1
         /\ UNCHANGED <<appendCalls, notifyCalls>>]_vars

\* C7: for a message whose analysis.isOrder is truthy, the run calls
\* logOrderToSheet once and sendSlackNotification once, whatever either
\* returns, and only then leaves the message (the batch holds every id
\* once, so the iteration is the run's only handling of the message).
C7_BothSinksAttemptedOnce ==
  /\ [](\A r \in Runs :
          /\ \A i, j \in 1..Len(batch[r]) :
               i # j => batch[r][i].id # batch[r][j].id
          /\ sheetCalls[r] <= 1 /\ slackCalls[r] <= 1
          /\ pc[r] = "sheetWait" => sheetCalls[r] = 1 /\ slackCalls[r] = 0
          /\ pc[r] = "slackWait" => sheetCalls[r] = 1 /\ slackCalls[r] = 1)
  /\ [][\A r \in Runs :
          (/\ pc[r] \in {"judged", "sheetWait", "slackWait"}
           /\ IsOrder(analysis[r]) = "truthy"
           /\ pc'[r] \in {"loop", "settled"}) =>
            /\ pc[r] = "slackWait"
            /\ pc'[r] = "loop"
            /\ sheetCalls'[r] = 1 /\ slackCalls'[r] = 1]_vars

\* C7 witness: the ledger call failed, the alert was still attempted and
\* succeeded, and the message has been left.
C7_Witness ==
  \E r \in Runs :
    /\ pc[r] = "loop"
    /\ analysis[r] = "order"
    /\ sheetSuccess[r] = "false" /\ slackSuccess[r] = "true"
    /\ sheetCalls[r] = 1 /\ slackCalls[r] = 1

\* C8: no step decreases the watermark.
C8_WatermarkMonotonic ==
  [][lastProcessedTime' >= lastProcessedTime]_vars

\* C8 witness: one run has ended and moved the watermark while another
\* run, which fetched a message, is still in flight.
C8_Witness ==
  \E r, q \in Runs :
    /\ pc[r] = "settled" /\ ~aborted[r]
    /\ lastProcessedTime > 0
    /\ InFlight(q) /\ Len(batch[q]) > 0

\* C9: a run whose fetch succeeded ends by setting the watermark to the
\* current time.
C9_SuccessfulFetchAdvances ==
  [][\A r \in Runs :
       (~fetchFailed[r] /\ Ends(r)) => lastProcessedTime' = now']_vars

\* C10: the promise of processMessages never rejects and the process is
\* not terminated.
C10_NeverRaises ==
  /\ ~terminated
  /\ \A r \in Runs : pc[r] = "settled" => outcome[r] = "resolved"

\* C10 witness: an exception reached the catch of line 331 and the run
\* still completed normally.
C10_Witness ==
  \E r \in Runs : pc[r] = "settled" /\ aborted[r] /\ outcome[r] = "resolved"

\* C11: a call of processMessages that follows an earlier call, with no
\* message arriving at the source since that earlier call was entered, calls
\* neither logOrderToSheet nor sendSlackNotification.
C11_SecondCallDeliversNothing ==
  [][calls = 2 => UNCHANGED <<appendCalls, notifyCalls>>]_vars

\* A classifier or sink call of run r is outstanding or has just returned.
Handling(r) == pc[r] \in {"analyzeWait", "judged", "sheetWait", "slackWait"}

\* C12: a message whose direction is not inbound never reaches the
\* classifier or a sink, and the run that examines it puts its id into
\* processedMessageIds.
C12_OutboundSkippedAndMarked ==
  /\ [](\A r \in Runs :
          Handling(r) => batch[r][idx[r]].direction = "inbound")
  /\ [](\A m \in source :
          m.direction # "inbound" =>
            appendCalls[m.id] = 0 /\ notifyCalls[m.id] = 0)
  /\ [][\A r \in Runs :
          (/\ pc[r] = "loop"
           /\ idx[r] <= Len(batch[r])
           /\ batch[r][idx[r]].direction # "inbound") =>
            /\ pc'[r] = "loop"
            /\ idx'[r] = idx[r] + 1
            /\ batch[r][idx[r]].id \in processedMessageIds']_vars

\* C12 witness: a run has just passed an outbound message and marked it.
C12_Witness ==
  \E r \in Runs :
    /\ pc[r] = "loop"
    /\ idx[r] > 1
    /\ batch[r][idx[r] - 1].direction = "outbound"
    /\ batch[r][idx[r] - 1].id \in processedMessageIds
    /\ appendCalls[batch[r][idx[r] - 1].id] = 0

\* C13: a run whose external call never answers still goes on: the call is
\* cut off by a timeout and the run continues, so that it can finish.
C13_HungCallTimesOut ==
  \A r \in Runs : pc[r] = "hung" => ENABLED RunStep(r)

\* C14: processMessages returns a summary of counts (processed, orders
\* detected, sink failures) in which a failed ledger append is reported: a
\* run that resolves resolves with such a summary.
C14_ReturnsSummary ==
  [][\A r \in Runs :
       (Ends(r) /\ outcome'[r] = "resolved") =>
         ReturnValue.kind = "summary"]_vars

\* C15: within one run the messages of the batch are handled in the order
\* returned and one at a time: every message before the current one is
\* completely handled (its id is in processedMessageIds), and the run moves
\* to the next message, by exactly one, only when nothing of the current
\* message is pending: its classification has returned and, for an order,
\* both sink attempts have returned.
C15_InOrderOneAtATime ==
  /\ [](\A r \in Runs :
          /\ idx[r] \in 1..(Len(batch[r]) + 1)
          /\ Handling(r) => idx[r] <= Len(batch[r])
          /\ \A i \in 1..Len(batch[r]) :
               i < idx[r] => batch[r][i].id \in processedMessageIds)
  /\ [][\A r \in Runs :
          (/\ pc[r] \in {"loop", "analyzeWait", "judged", "sheetWait",
                         "slackWait"}
           /\ pc'[r] # "settled"
           /\ idx'[r] # idx[r]) =>
            /\ idx'[r] = idx[r] + 1
            /\ pc'[r] = "loop"
            /\ pc[r] \in {"loop", "judged", "slackWait"}
            /\ pc[r] = "judged" => IsOrder(analysis[r]) = "falsy"
            /\ pc[r] = "slackWait" =>
                 /\ sheetSuccess[r] # "none"
                 /\ slackSuccess'[r] # "none"]_vars

\* C15 witness: the run is classifying the second message of its batch
\* after the first, an inbound order, went through both sinks and was marked.
C15_Witness ==
  \E r \in Runs :
    /\ pc[r] = "analyzeWait"
    /\ idx[r] = 2
    /\ batch[r][1].direction = "inbound"
    /\ batch[r][1].id \in processedMessageIds
    /\ appendCalls[batch[r][1].id] >= 1
    /\ notifyCalls[batch[r][1].id] >= 1

\* C16: for an inbound message that the classifier judged isOrder = false
\* neither sink is called, and the step that judges it puts its id into
\* processedMessageIds and moves to the next message.
C16_NonOrderMarkedWithoutSinks ==
  /\ [](\A r \in Runs :
          analysis[r] = "notOrder" =>
            /\ sheetCalls[r] = 0 /\ slackCalls[r] = 0
            /\ pc[r] \notin {"sheetWait", "slackWait"})
  /\ [][\A r \in Runs :
          (pc[r] = "judged" /\ analysis[r] = "notOrder") =>
            /\ UNCHANGED <<appendCalls, notifyCalls>>
            /\ batch[r][idx[r]].direction = "inbound"
            /\ batch[r][idx[r]].id \in processedMessageIds'
            /\ pc'[r] = "loop"
            /\ idx'[r] = idx[r] + 1]_vars

\* C16 witness: a run has just judged an inbound message a non-order; the
\* id is marked and no sink was ever called for it.
C16_Witness ==
  \E r \in Runs :
    /\ pc[r] = "loop"
    /\ idx[r] > 1
    /\ response[r] = "notOrder"
    /\ analysis[r] = "notOrder"
    /\ batch[r][idx[r] - 1].direction = "inbound"
    /\ batch[r][idx[r] - 1].id \in processedMessageIds
    /\ appendCalls[batch[r][idx[r] - 1].id] = 0
    /\ notifyCalls[batch[r][idx[r] - 1].id] = 0

\* C17: with a source that never fails, every inbound message created
\* after the start is eventually handed to the classifier by some run.  The
\* watermark never decreases (C8), so the claim needs this: an inbound
\* message that has not been classified and can still reach a run keeps
\* being able to reach a run until it is classified.
C17_PendingMessageStaysObtainable ==
  [][\A m \in source :
       (/\ m.direction = "inbound"
        /\ m.id \notin classified
        /\ Obtainable(m)) =>
         \/ m.id \in classified'
         \/ Obtainable(m)']_vars

\* C18: the step that puts an inbound message's id into processedMessageIds
\* is taken by a run whose classification of that message has returned and
\* which, when the message is an order, has made both sink attempts and got
\* both answers; nothing of the message is pending in that run afterwards.
C18_MarkedAfterHandling ==
  [][\A m \in source :
       (/\ m.direction = "inbound"
        /\ m.id \notin processedMessageIds
        /\ m.id \in processedMessageIds') =>
         \E r \in Runs :
           /\ pc[r] \in {"judged", "slackWait"}
           /\ batch[r][idx[r]].id = m.id
           /\ response[r] # "none" /\ analysis[r] # "none"
           /\ IsOrder(analysis[r]) = "truthy" =>
                /\ pc[r] = "slackWait"
                /\ sheetCalls[r] = 1 /\ slackCalls[r] = 1
                /\ sheetSuccess[r] # "none"
                /\ slackSuccess'[r] # "none"
           /\ pc'[r] = "loop"
           /\ idx'[r] = idx[r] + 1]_vars

\* C18 witness: an inbound order has just been marked by a run that holds
\* the answers of the classifier and of both sinks, the notification failed.
C18_Witness ==
  \E r \in Runs :
    /\ pc[r] = "loop"
    /\ idx[r] > 1
    /\ batch[r][idx[r] - 1].direction = "inbound"
    /\ batch[r][idx[r] - 1].id \in processedMessageIds
    /\ response[r] = "order"
    /\ sheetSuccess[r] = "true" /\ slackSuccess[r] = "false"

\* C19: processedMessageIds only grows: no step of a run or of a setup
\* request, in any interleaving, takes an id out of it.
C19_ProcessedIdsOnlyGrow ==
  [][processedMessageIds \subseteq processedMessageIds']_vars

\* C19 witness: the header row has been written by a setup request while a
\* run that already marked a message is still going through its batch.
C19_Witness ==
  /\ headersWritten
  /\ \E r \in Runs :
       /\ pc[r] = "analyzeWait"
       /\ idx[r] = 2
       /\ batch[r][1].id \in processedMessageIds

====
